---- MODULE Spec2Model ----
(***************************************************************************)
(* State-machine model of the digital I/O control subsystem of the ESP32  *)
(* firmware template: ButtonController (src/peripherals/button.rs),       *)
(* LedController (src/peripherals/led.rs), retry_with_backoff             *)
(* (src/utils/error_handler.rs), Timer (src/utils/time_utils.rs) and the  *)
(* main loop (src/main.rs).                                               *)
(*                                                                         *)
(* Each component has its own specification (SpecButton, SpecLed,         *)
(* SpecRetry, SpecTimer, SpecMain); the variables of the components a      *)
(* specification does not exercise stay at their constructed values.      *)
(***************************************************************************)
EXTENDS Integers, Sequences, FiniteSets, TLC

VARIABLES
    \* ButtonController
    last_state,         \* ButtonController.last_state (bool)
    polls,              \* history: one record per is_pressed() call
    \* LedController
    led1,               \* electrical level of the LED1 output (TRUE = high)
    led2,               \* electrical level of the LED2 output
    writes,             \* history: one record per pin write attempted
    led_ops,            \* history: one record per LedController call
    \* retry_with_backoff (one call of it)
    overflow_checks,    \* build profile: TRUE when arithmetic overflow panics
    max_attempts,       \* parameter max_attempts (u32)
    initial_delay_ms,   \* parameter initial_delay_ms (u32)
    attempt,            \* local attempt
    delay_ms,           \* local delay_ms (u32)
    calls,              \* history: the result of every operation() call
    sleeps,             \* history: the argument of every delay_ms() call
    retry_ret,          \* Running, Ok(v), Err(e) or Panic
    retry_waiting,      \* TRUE while the call is blocked in delay_ms()
    \* Timer
    now,                \* the uptime clock get_uptime_ms()
    start_time,         \* Timer.start_time
    duration_ms,        \* Timer.duration_ms
    timer_calls,        \* history: the queries since construction or reset
    resets,             \* history: the latest reset calls with no query between
    \* main
    led_state,          \* local led_state of main
    last_button_state,  \* local last_button_state of main
    iters,              \* history: one record per iteration of main's loop
    main_ret,           \* Running, or what main returned
    \* ButtonController::wait_for_press (one call of it)
    timeout_ms,         \* parameter timeout_ms
    wait_start,         \* local start_time
    wait_ret,           \* Idle, Running, Ok(b) or Err(e)
    \* handle_error_with_recovery
    handled,            \* history: one record per call
    \* SensorTask
    temperature,        \* SensorTask.temperature, in hundredths of a degree
    humidity,           \* SensorTask.humidity, in hundredths of a percent
    pressure,           \* SensorTask.pressure, in hundredths of a hPa
    is_active,          \* SensorTask.is_active
    sensor_run,         \* Idle, or Running while run_loop is looping
    sensor_ops          \* history: the latest SensorTask calls

buttonVars == <<last_state, polls>>
ledVars == <<led1, led2, writes, led_ops>>
retryVars == <<overflow_checks, max_attempts, initial_delay_ms, attempt,
               delay_ms, calls, sleeps, retry_ret, retry_waiting>>
timerVars == <<now, start_time, duration_ms, timer_calls, resets>>
mainVars == <<led_state, last_button_state, iters, main_ret>>
waitVars == <<timeout_ms, wait_start, wait_ret>>
recoveryVars == <<handled>>
sensorVars == <<temperature, humidity, pressure, is_active, sensor_run,
                sensor_ops>>
vars == <<buttonVars, ledVars, retryVars, timerVars, mainVars, waitVars,
          recoveryVars, sensorVars>>

(***************************************************************************)
(* Bounds of the model.                                                    *)
(***************************************************************************)
MaxPolls == 5        \* is_pressed() calls in SpecButton
MaxLedOps == 3       \* LedController calls in SpecLed
MaxAttempts == 3     \* largest max_attempts tried in SpecRetry
MaxNow == 4          \* last reading of the uptime clock in SpecTimer
MaxDuration == 3     \* largest Timer duration in SpecTimer
MaxTimerCalls == 3   \* Timer queries recorded between resets
MaxResets == 2       \* consecutive Timer resets recorded
MaxIter == 5         \* iterations of the main loop in Spec
MaxHandled == 3
MaxSensorOps == 2
MaxTimeout == 20     \* largest timeout_ms tried in SpecWait

(***************************************************************************)
(* Result<T> values: Ok(v) and Err(e).                                     *)
(***************************************************************************)
Ok(v) == [tag |-> "Ok", val |-> v]
Err(e) == [tag |-> "Err", val |-> e]
IsOk(r) == r.tag = "Ok"
IsErr(r) == r.tag = "Err"

(***************************************************************************)
(* ButtonController.                                                       *)
(* The pin is wired with a pull-up: is_low() = Ok(true) is the raw level   *)
(* Pressed, is_low() = Ok(false) the raw level Released.  A read of the   *)
(* pin is one of Ok(TRUE), Ok(FALSE) or Err("gpio").                       *)
(***************************************************************************)
Pressed == TRUE
Released == FALSE
PinReads == {Ok(Pressed), Ok(Released), Err("gpio")}

\* is_pressed with the plausible slip of reporting every change of level
\* (return Ok(true)) instead of the new level.
is_pressed_any_edge(is_low, last) ==
    IF IsErr(is_low)
    THEN [ret |-> Err("Button state reading failed"), last_state |-> last]
    ELSE LET current_state == is_low.val
         IN  IF current_state # last
             THEN [ret |-> Ok(TRUE), last_state |-> current_state]
             ELSE [ret |-> Ok(FALSE), last_state |-> last]

\* is_pressed with the plausible slip of not storing the new level.
is_pressed_no_update(is_low, last) ==
    IF IsErr(is_low)
    THEN [ret |-> Err("Button state reading failed"), last_state |-> last]
    ELSE LET current_state == is_low.val
         IN  IF current_state # last
             THEN [ret |-> Ok(current_state), last_state |-> last]
             ELSE [ret |-> Ok(FALSE), last_state |-> last]

\* is_pressed with the plausible slip of clearing last_state on a failed read.
is_pressed_err_clears(is_low, last) ==
    IF IsErr(is_low)
    THEN [ret |-> Err("Button state reading failed"), last_state |-> FALSE]
    ELSE LET current_state == is_low.val
         IN  IF current_state # last
             THEN [ret |-> Ok(current_state), last_state |-> current_state]
             ELSE [ret |-> Ok(FALSE), last_state |-> last]

\* is_pressed with the plausible slip of reporting the level read instead
\* of the change of level.
is_pressed_level(is_low, last) ==
    IF IsErr(is_low)
    THEN [ret |-> Err("Button state reading failed"), last_state |-> last]
    ELSE [ret |-> Ok(is_low.val), last_state |-> is_low.val]

\* ButtonController::is_pressed: the value returned and the new last_state,
\* given the outcome of self.button.is_low() and the current last_state.
is_pressed(is_low, last) ==
    IF IsErr(is_low)
    THEN \* `?` returns the mapped error before last_state is touched
         [ret |-> Err("Button state reading failed"), last_state |-> last]
    ELSE LET current_state == is_low.val
         IN  IF current_state # last
             THEN [ret |-> Ok(current_state), last_state |-> current_state]
             ELSE [ret |-> Ok(FALSE), last_state |-> last]

\* ButtonController::is_pressed_raw: the mapped read, no state involved.
is_pressed_raw(is_low) ==
    IF IsErr(is_low) THEN Err("Button state reading failed") ELSE is_low

\* ButtonController::new: last_state: false.
ButtonNew ==
    /\ last_state = FALSE
    /\ polls = <<>>

\* One call of is_pressed(); the call is recorded with the read it saw,
\* the value it returned and last_state before and after it.
IsPressed ==
    /\ Len(polls) < MaxPolls
    /\ \E is_low \in PinReads :
           LET r == is_pressed(is_low, last_state)
           IN  /\ last_state' = r.last_state
               /\ polls' = Append(polls, [read |-> is_low, ret |-> r.ret,
                                          before |-> last_state,
                                          after |-> r.last_state])
    /\ UNCHANGED <<ledVars, retryVars, timerVars, mainVars, waitVars,
                 recoveryVars, sensorVars>>

(***************************************************************************)
(* LedController.                                                          *)
(* led1 and led2 are the electrical levels of the two output pins; a pin   *)
(* write that the driver reports as failed leaves the level as it was.     *)
(* The outputs are low after PinDriver::output configures them.            *)
(***************************************************************************)
LedWrite(pin, level, ok) == [pin |-> pin, level |-> level, ok |-> ok]

\* LedController::set_led1: the driver call self.led1.set_high()/set_low()
\* succeeds (ok) or fails; returns the result, the new level and the write.
set_led1(state, ok, l1) ==
    [ret |-> IF ok THEN Ok("unit") ELSE Err("LED1 state setting failed"),
     led1 |-> IF ok THEN state ELSE l1,
     writes |-> <<LedWrite(1, state, ok)>>]

\* LedController::set_led2.
set_led2(state, ok, l2) ==
    [ret |-> IF ok THEN Ok("unit") ELSE Err("LED2 state setting failed"),
     led2 |-> IF ok THEN state ELSE l2,
     writes |-> <<LedWrite(2, state, ok)>>]

\* set_state with the plausible slip of writing LED2 even after LED1 failed
\* (errors collected instead of propagated with `?`).
set_state_no_stop(state, ok1, ok2, l1, l2) ==
    LET r1 == set_led1(state, ok1, l1)
        r2 == set_led2(state, ok2, l2)
    IN  [ret |-> IF IsErr(r1.ret) THEN r1.ret ELSE r2.ret,
         led1 |-> r1.led1, led2 |-> r2.led2,
         writes |-> r1.writes \o r2.writes]

\* set_state with the plausible slip of driving only LED1.
set_state_led1_only(state, ok1, ok2, l1, l2) ==
    LET r1 == set_led1(state, ok1, l1)
    IN  [ret |-> r1.ret, led1 |-> r1.led1, led2 |-> l2, writes |-> r1.writes]

\* LedController::set_state: self.set_led1(state)?; self.set_led2(state)?; Ok(())
set_state(state, ok1, ok2, l1, l2) ==
    LET r1 == set_led1(state, ok1, l1)
    IN  IF IsErr(r1.ret)
        THEN [ret |-> r1.ret, led1 |-> r1.led1, led2 |-> l2,
              writes |-> r1.writes]
        ELSE LET r2 == set_led2(state, ok2, l2)
             IN  IF IsErr(r2.ret)
                 THEN [ret |-> r2.ret, led1 |-> r1.led1, led2 |-> r2.led2,
                       writes |-> r1.writes \o r2.writes]
                 ELSE [ret |-> Ok("unit"), led1 |-> r1.led1, led2 |-> r2.led2,
                       writes |-> r1.writes \o r2.writes]

\* toggle_led1 with the plausible slip of switching the LED on (set_high)
\* instead of toggling it.
toggle_led1_sets_high(ok, l1) ==
    [ret |-> IF ok THEN Ok("unit") ELSE Err("LED1 toggle failed"),
     led1 |-> IF ok THEN TRUE ELSE l1,
     writes |-> <<LedWrite(1, TRUE, ok)>>]

\* LedController::toggle_led1: the driver flips the output it last drove.
toggle_led1(ok, l1) ==
    [ret |-> IF ok THEN Ok("unit") ELSE Err("LED1 toggle failed"),
     led1 |-> IF ok THEN ~l1 ELSE l1,
     writes |-> <<LedWrite(1, ~l1, ok)>>]

\* LedController::toggle_led2.
toggle_led2(ok, l2) ==
    [ret |-> IF ok THEN Ok("unit") ELSE Err("LED2 toggle failed"),
     led2 |-> IF ok THEN ~l2 ELSE l2,
     writes |-> <<LedWrite(2, ~l2, ok)>>]

\* LedController::get_led1_state: read-back of the pin level.
get_led1_state(ok, l1) ==
    IF ok THEN Ok(l1) ELSE Err("LED1 state reading failed")

\* LedController::get_led2_state.
get_led2_state(ok, l2) ==
    IF ok THEN Ok(l2) ELSE Err("LED2 state reading failed")

\* LedController::new.
LedNew ==
    /\ led1 = FALSE
    /\ led2 = FALSE
    /\ writes = <<>>
    /\ led_ops = <<>>

\* The record of one LedController call: its argument and result, the pin
\* writes it made in order, and the two levels before and after it.
LedOp(op, arg, ret, wr, before, after) ==
    [op |-> op, arg |-> arg, ret |-> ret, writes |-> wr,
     before |-> before, after |-> after]

SetLed1 ==
    /\ Len(led_ops) < MaxLedOps
    /\ \E state \in BOOLEAN, ok \in BOOLEAN :
           LET r == set_led1(state, ok, led1)
           IN  /\ led1' = r.led1
               /\ writes' = writes \o r.writes
               /\ led_ops' = Append(led_ops, LedOp("set_led1", state, r.ret, r.writes,
                                            <<led1, led2>>, <<r.led1, led2>>))
    /\ UNCHANGED <<led2, buttonVars, retryVars, timerVars, mainVars, waitVars,
                 recoveryVars, sensorVars>>

SetLed2 ==
    /\ Len(led_ops) < MaxLedOps
    /\ \E state \in BOOLEAN, ok \in BOOLEAN :
           LET r == set_led2(state, ok, led2)
           IN  /\ led2' = r.led2
               /\ writes' = writes \o r.writes
               /\ led_ops' = Append(led_ops, LedOp("set_led2", state, r.ret, r.writes,
                                            <<led1, led2>>, <<led1, r.led2>>))
    /\ UNCHANGED <<led1, buttonVars, retryVars, timerVars, mainVars, waitVars,
                 recoveryVars, sensorVars>>

SetState ==
    /\ Len(led_ops) < MaxLedOps
    /\ \E state \in BOOLEAN, ok1 \in BOOLEAN, ok2 \in BOOLEAN :
           LET r == set_state(state, ok1, ok2, led1, led2)
           IN  /\ led1' = r.led1
               /\ led2' = r.led2
               /\ writes' = writes \o r.writes
               /\ led_ops' = Append(led_ops, LedOp("set_state", state, r.ret, r.writes,
                                            <<led1, led2>>, <<r.led1, r.led2>>))
    /\ UNCHANGED <<buttonVars, retryVars, timerVars, mainVars, waitVars,
                 recoveryVars, sensorVars>>

ToggleLed1 ==
    /\ Len(led_ops) < MaxLedOps
    /\ \E ok \in BOOLEAN :
           LET r == toggle_led1(ok, led1)
           IN  /\ led1' = r.led1
               /\ writes' = writes \o r.writes
               /\ led_ops' = Append(led_ops, LedOp("toggle_led1", FALSE, r.ret, r.writes,
                                            <<led1, led2>>, <<r.led1, led2>>))
    /\ UNCHANGED <<led2, buttonVars, retryVars, timerVars, mainVars, waitVars,
                 recoveryVars, sensorVars>>

ToggleLed2 ==
    /\ Len(led_ops) < MaxLedOps
    /\ \E ok \in BOOLEAN :
           LET r == toggle_led2(ok, led2)
           IN  /\ led2' = r.led2
               /\ writes' = writes \o r.writes
               /\ led_ops' = Append(led_ops, LedOp("toggle_led2", FALSE, r.ret, r.writes,
                                            <<led1, led2>>, <<led1, r.led2>>))
    /\ UNCHANGED <<led1, buttonVars, retryVars, timerVars, mainVars, waitVars,
                 recoveryVars, sensorVars>>

GetLed1State ==
    /\ Len(led_ops) < MaxLedOps
    /\ \E ok \in BOOLEAN :
           led_ops' = Append(led_ops, LedOp("get_led1_state", FALSE,
                                            get_led1_state(ok, led1), <<>>,
                                            <<led1, led2>>, <<led1, led2>>))
    /\ UNCHANGED <<led1, led2, writes, buttonVars, retryVars, timerVars, mainVars, waitVars,
                 recoveryVars, sensorVars>>

GetLed2State ==
    /\ Len(led_ops) < MaxLedOps
    /\ \E ok \in BOOLEAN :
           led_ops' = Append(led_ops, LedOp("get_led2_state", FALSE,
                                            get_led2_state(ok, led2), <<>>,
                                            <<led1, led2>>, <<led1, led2>>))
    /\ UNCHANGED <<led1, led2, writes, buttonVars, retryVars, timerVars, mainVars, waitVars,
                 recoveryVars, sensorVars>>

(***************************************************************************)
(* u32 arithmetic.  A u32 is kept as two 16-bit limbs, value =              *)
(* hi * 2^16 + lo, so that every u32 and the carry out of a doubling are   *)
(* represented exactly.                                                     *)
(***************************************************************************)
Limb == 2^16
u32(n) == [hi |-> (n \div Limb) % Limb, lo |-> n % Limb]

\* d * 2 exceeds u32::MAX
mul2_overflows(d) == 2 * d.hi + (2 * d.lo) \div Limb >= Limb

\* d * 2 modulo 2^32
wrapping_mul2(d) ==
    [hi |-> (2 * d.hi + (2 * d.lo) \div Limb) % Limb, lo |-> (2 * d.lo) % Limb]

(***************************************************************************)
(* retry_with_backoff.                                                      *)
(* The operation is a closure of the caller: each call of it returns        *)
(* Ok("value") or one of two distinguishable errors.  `delay_ms *= 2` on a  *)
(* u32 panics when the build has overflow checks (the dev profile) and      *)
(* wraps when it has not (the release profile).                             *)
(***************************************************************************)
OperationResults == {Ok("value"), Err("e1"), Err("e2")}
Running == [tag |-> "Running", val |-> "none"]
Panic == [tag |-> "Panic", val |-> "attempt to multiply with overflow"]
InitialDelays == {u32(0), u32(100), u32(2^30), [hi |-> 2^15, lo |-> 0]}

\* The loop body with the plausible slip `attempt > max_attempts`.
retry_with_backoff_off_by_one(result, att, delay, max) ==
    IF IsOk(result)
    THEN [ret |-> result, attempt |-> att, sleeps |-> <<>>]
    ELSE IF att + 1 > max
         THEN [ret |-> result, attempt |-> att + 1, sleeps |-> <<>>]
         ELSE [ret |-> Running, attempt |-> att + 1, sleeps |-> <<delay>>]

\* The loop body with the plausible slip of reporting a fixed error
\* instead of the operation's own.
retry_with_backoff_generic_error(result, att, delay, max) ==
    IF IsOk(result)
    THEN [ret |-> result, attempt |-> att, sleeps |-> <<>>]
    ELSE IF att + 1 >= max
         THEN [ret |-> Err("e1"), attempt |-> att + 1, sleeps |-> <<>>]
         ELSE [ret |-> Running, attempt |-> att + 1, sleeps |-> <<delay>>]

\* retry_with_backoff, one pass of its loop up to the wait: `result` is
\* what operation() returned; ret is Running, with the delay it has
\* entered in sleeps, when the call goes on to FreeRtos::delay_ms(delay_ms).
retry_with_backoff(result, att, delay, max) ==
    IF IsOk(result)
    THEN \* Ok(value) => return Ok(value)
         [ret |-> result, attempt |-> att, sleeps |-> <<>>]
    ELSE \* attempt += 1; if attempt >= max_attempts { return Err(e); }
         IF att + 1 >= max
         THEN [ret |-> result, attempt |-> att + 1, sleeps |-> <<>>]
         ELSE \* warn!(..); FreeRtos::delay_ms(delay_ms);
              [ret |-> Running, attempt |-> att + 1, sleeps |-> <<delay>>]

\* `delay_ms *= 2`, executed when the wait has returned: a panic in a
\* build with overflow checks when the product exceeds u32::MAX, the
\* product modulo 2^32 otherwise.
double_delay(delay, checks) ==
    IF mul2_overflows(delay) /\ checks
    THEN [ret |-> Panic, delay_ms |-> delay]
    ELSE [ret |-> Running, delay_ms |-> wrapping_mul2(delay)]

\* Entry of retry_with_backoff(operation, max, initial):
\* let mut attempt = 0; let mut delay_ms = initial_delay_ms;
RetryEntry(max, initial, checks) ==
    /\ overflow_checks = checks
    /\ max_attempts = max
    /\ initial_delay_ms = initial
    /\ attempt = 0
    /\ delay_ms = initial
    /\ calls = <<>>
    /\ sleeps = <<>>
    /\ retry_ret = Running
    /\ retry_waiting = FALSE

\* One pass of the loop up to the wait: operation() is called and its
\* result handled; the call returns, or blocks in delay_ms(delay_ms).
RetryAttempt ==
    /\ retry_ret = Running
    /\ ~retry_waiting
    /\ \E result \in OperationResults :
           LET r == retry_with_backoff(result, attempt, delay_ms, max_attempts)
           IN  /\ calls' = Append(calls, result)
               /\ attempt' = r.attempt
               /\ sleeps' = sleeps \o r.sleeps
               /\ retry_ret' = r.ret
               /\ retry_waiting' = (r.sleeps # <<>>)
    /\ UNCHANGED <<overflow_checks, max_attempts, initial_delay_ms, delay_ms>>
    /\ UNCHANGED <<buttonVars, ledVars, timerVars, mainVars, waitVars,
                 recoveryVars, sensorVars>>

\* The wait has returned: delay_ms is doubled and the loop goes round.
RetryWake ==
    /\ retry_waiting
    /\ LET r == double_delay(delay_ms, overflow_checks)
       IN  /\ delay_ms' = r.delay_ms
           /\ retry_ret' = r.ret
    /\ retry_waiting' = FALSE
    /\ UNCHANGED <<overflow_checks, max_attempts, initial_delay_ms, attempt,
                   calls, sleeps>>
    /\ UNCHANGED <<buttonVars, ledVars, timerVars, mainVars, waitVars,
                 recoveryVars, sensorVars>>

(***************************************************************************)
(* Timer.  `now` is the monotonic uptime clock in ms; the readings and     *)
(* durations of the model are far below the u32 and u64 ranges.            *)
(***************************************************************************)
Durations == 0 .. MaxDuration

\* has_elapsed with the plausible slip of comparing the uptime with the
\* duration alone.
has_elapsed_forgets_start(current_time, start_time_ms, dur) ==
    current_time >= dur

\* has_elapsed with the plausible slip of `>` for `>=`.
has_elapsed_strict(current_time, start_time_ms, dur) ==
    current_time > start_time_ms + dur

\* has_elapsed(start_time_ms, duration_ms) at clock reading current_time.
has_elapsed(current_time, start_time_ms, dur) ==
    current_time >= start_time_ms + dur

\* Timer::has_expired.
has_expired(current_time, start, dur) == has_elapsed(current_time, start, dur)

\* `x as u32` for a u64 x: the low 32 bits, as two 16-bit limbs.
as_u32(x) == (x % Limb) + Limb * ((x \div Limb) % Limb)

\* Timer::remaining_ms at clock reading current_time.
remaining_ms(current_time, start, dur) ==
    LET elapsed == current_time - start
    IN  IF elapsed >= dur THEN 0 ELSE dur - as_u32(elapsed)

\* reset_with_duration with the plausible slip of extending the duration.
reset_with_duration_extends(d, current_time, start, dur) ==
    [start_time |-> current_time, duration_ms |-> dur + d]

\* Timer::reset at clock reading current_time: the new fields.
reset(current_time, start, dur) ==
    [start_time |-> current_time, duration_ms |-> dur]

\* Timer::reset_with_duration(d) at clock reading current_time.
reset_with_duration(d, current_time, start, dur) ==
    [start_time |-> current_time, duration_ms |-> d]

\* Timer::new(duration_ms) at clock reading t.
TimerNew(t, dur) ==
    /\ now = t
    /\ start_time = t
    /\ duration_ms = dur
    /\ timer_calls = <<>>
    /\ resets = <<>>

TimerCall(op, ret) == [op |-> op, ret |-> ret, at |-> now]

\* The uptime clock advances.
Tick ==
    /\ now < MaxNow
    /\ now' = now + 1
    /\ UNCHANGED <<start_time, duration_ms, timer_calls, resets>>
    /\ UNCHANGED <<buttonVars, ledVars, retryVars, mainVars, waitVars,
                 recoveryVars, sensorVars>>

HasExpired ==
    /\ Len(timer_calls) < MaxTimerCalls
    /\ timer_calls' = Append(timer_calls,
           TimerCall("has_expired", has_expired(now, start_time, duration_ms)))
    /\ resets' = <<>>
    /\ UNCHANGED <<now, start_time, duration_ms>>
    /\ UNCHANGED <<buttonVars, ledVars, retryVars, mainVars, waitVars,
                 recoveryVars, sensorVars>>

RemainingMs ==
    /\ Len(timer_calls) < MaxTimerCalls
    /\ timer_calls' = Append(timer_calls,
           TimerCall("remaining_ms", remaining_ms(now, start_time, duration_ms)))
    /\ resets' = <<>>
    /\ UNCHANGED <<now, start_time, duration_ms>>
    /\ UNCHANGED <<buttonVars, ledVars, retryVars, mainVars, waitVars,
                 recoveryVars, sensorVars>>

TimerFields == [start_time |-> start_time, duration_ms |-> duration_ms]
\* The last MaxResets records of a history.
Latest(h) ==
    IF Len(h) <= MaxResets THEN h
    ELSE SubSeq(h, Len(h) - MaxResets + 1, Len(h))
ResetCall(op, arg, after) ==
    [op |-> op, arg |-> arg, at |-> now, before |-> TimerFields,
     after |-> after]

\* Timer::reset: self.start_time = get_uptime_ms().
Reset ==
    /\ LET r == reset(now, start_time, duration_ms)
       IN  /\ start_time' = r.start_time
           /\ duration_ms' = r.duration_ms
           /\ resets' = Latest(Append(resets, ResetCall("reset", 0, r)))
    /\ timer_calls' = <<>>
    /\ UNCHANGED now
    /\ UNCHANGED <<buttonVars, ledVars, retryVars, mainVars, waitVars,
                 recoveryVars, sensorVars>>

\* Timer::reset_with_duration(d).
ResetWithDuration ==
    /\ \E d \in Durations :
           LET r == reset_with_duration(d, now, start_time, duration_ms)
           IN  /\ start_time' = r.start_time
               /\ duration_ms' = r.duration_ms
               /\ resets' = Latest(Append(resets,
                                   ResetCall("reset_with_duration", d, r)))
    /\ timer_calls' = <<>>
    /\ UNCHANGED now
    /\ UNCHANGED <<buttonVars, ledVars, retryVars, mainVars, waitVars,
                 recoveryVars, sensorVars>>

(***************************************************************************)
(* ButtonController::wait_for_press.                                        *)
(* Time passes while the call runs: the poll takes 0 or 1 ms before the     *)
(* clock is read, and FreeRtos::delay_ms(10) returns after 10 or 11 ms.     *)
(***************************************************************************)
PollDelayMs == 10
Timeouts == {0, 1, PollDelayMs, MaxTimeout}
Idle == [tag |-> "Idle", val |-> "none"]

\* The loop body with the plausible slip of treating the timeout as an error.
wait_for_press_timeout_error(is_low, last, current_time, start, timeout) ==
    LET p == is_pressed(is_low, last)
    IN  IF IsErr(p.ret) THEN [ret |-> p.ret, poll |-> p, sleep |-> <<>>]
        ELSE IF p.ret.val THEN [ret |-> Ok(TRUE), poll |-> p, sleep |-> <<>>]
        ELSE IF current_time - start > timeout
             THEN [ret |-> Err("timeout"), poll |-> p, sleep |-> <<>>]
             ELSE [ret |-> Running, poll |-> p, sleep |-> <<PollDelayMs>>]

\* The loop body with the plausible slip of ending the wait on any change
\* of last_state.
wait_for_press_any_change(is_low, last, current_time, start, timeout) ==
    LET p == is_pressed(is_low, last)
    IN  IF IsErr(p.ret) THEN [ret |-> p.ret, poll |-> p, sleep |-> <<>>]
        ELSE IF p.last_state # last
             THEN [ret |-> Ok(TRUE), poll |-> p, sleep |-> <<>>]
        ELSE IF current_time - start > timeout
             THEN [ret |-> Ok(FALSE), poll |-> p, sleep |-> <<>>]
             ELSE [ret |-> Running, poll |-> p, sleep |-> <<PollDelayMs>>]

\* The loop body with the plausible slip of `>=` for `>` in the timeout test.
wait_for_press_timeout_inclusive(is_low, last, current_time, start, timeout) ==
    LET p == is_pressed(is_low, last)
    IN  IF IsErr(p.ret) THEN [ret |-> p.ret, poll |-> p, sleep |-> <<>>]
        ELSE IF p.ret.val THEN [ret |-> Ok(TRUE), poll |-> p, sleep |-> <<>>]
        ELSE IF current_time - start >= timeout
             THEN [ret |-> Ok(FALSE), poll |-> p, sleep |-> <<>>]
             ELSE [ret |-> Running, poll |-> p, sleep |-> <<PollDelayMs>>]

\* wait_for_press, one pass of its loop: is_low is what the pin read of
\* is_pressed() gives, current_time the clock reading taken after the poll;
\* ret is Running when the loop sleeps and goes round again.
wait_for_press(is_low, last, current_time, start, timeout) ==
    LET p == is_pressed(is_low, last)
    IN  IF IsErr(p.ret)
        THEN \* self.is_pressed()? returns the error
             [ret |-> p.ret, poll |-> p, sleep |-> <<>>]
        ELSE IF p.ret.val
             THEN [ret |-> Ok(TRUE), poll |-> p, sleep |-> <<>>]
        ELSE IF current_time - start > timeout
             THEN [ret |-> Ok(FALSE), poll |-> p, sleep |-> <<>>]
             ELSE [ret |-> Running, poll |-> p, sleep |-> <<PollDelayMs>>]

\* Entry of wait_for_press(timeout) at clock reading t:
\* let start_time = esp_timer_get_time() / 1000;
WaitEntry(t, timeout) ==
    /\ now = t
    /\ timeout_ms = timeout
    /\ wait_start = t
    /\ wait_ret = Running

\* No call of wait_for_press under way.
WaitIdle ==
    /\ timeout_ms = 0
    /\ wait_start = 0
    /\ wait_ret = Idle

\* One pass of the loop of wait_for_press.
WaitPoll ==
    /\ wait_ret = Running
    /\ \E is_low \in PinReads, took \in 0 .. 1, late \in 0 .. 1 :
           LET current_time == now + took
               r == wait_for_press(is_low, last_state, current_time,
                                   wait_start, timeout_ms)
           IN  /\ last_state' = r.poll.last_state
               /\ polls' = Append(polls, [read |-> is_low, ret |-> r.poll.ret,
                                          before |-> last_state,
                                          after |-> r.poll.last_state])
               /\ wait_ret' = r.ret
               /\ now' = IF r.sleep = <<>> THEN current_time
                         ELSE current_time + r.sleep[1] + late
    /\ UNCHANGED <<timeout_ms, wait_start>>
    /\ UNCHANGED <<start_time, duration_ms, timer_calls, resets>>
    /\ UNCHANGED <<ledVars, retryVars, mainVars,
                 recoveryVars, sensorVars>>

(***************************************************************************)
(* main: the control loop.                                                  *)
(***************************************************************************)
LoopDelayMs == 50
\* What one iteration of the loop does, in order: the poll, the pin writes
\* of set_state, the delay.
PollEvent == [ev |-> "is_pressed", arg |-> 0]
WriteEvent(pin) == [ev |-> "write", arg |-> pin]
WriteEvents(ws) == [i \in 1 .. Len(ws) |-> WriteEvent(ws[i].pin)]
DelayEvent == [ev |-> "delay_ms", arg |-> LoopDelayMs]

\* The loop body with the plausible slip of switching the LEDs on instead
\* of flipping led_state.
main_loop_sets_on(is_low, ok1, ok2, last, ls, lbs, l1, l2) ==
    LET p == is_pressed(is_low, last)
        button_pressed == IF IsOk(p.ret) THEN p.ret.val ELSE FALSE
    IN  IF button_pressed /\ ~lbs
        THEN LET w == set_state(TRUE, ok1, ok2, l1, l2)
             IN  [poll |-> p, button_pressed |-> button_pressed,
                  led_state |-> TRUE,
                  last_button_state |-> button_pressed,
                  set |-> <<LedOp("set_state", TRUE, w.ret, w.writes,
                                  <<l1, l2>>, <<w.led1, w.led2>>)>>,
                  led1 |-> w.led1, led2 |-> w.led2, writes |-> w.writes,
                  events |-> <<PollEvent>> \o WriteEvents(w.writes) \o <<DelayEvent>>,
                  ret |-> Running]
        ELSE [poll |-> p, button_pressed |-> button_pressed,
              led_state |-> ls, last_button_state |-> button_pressed,
              set |-> <<>>, led1 |-> l1, led2 |-> l2, writes |-> <<>>,
              events |-> <<PollEvent, DelayEvent>>,
              ret |-> Running]

\* The loop body with the plausible slip of rewriting the LEDs in every
\* iteration, not only on a press.
main_loop_writes_always(is_low, ok1, ok2, last, ls, lbs, l1, l2) ==
    LET p == is_pressed(is_low, last)
        button_pressed == IF IsOk(p.ret) THEN p.ret.val ELSE FALSE
    IN  IF TRUE
        THEN LET w == set_state((IF button_pressed /\ ~lbs THEN ~ls ELSE ls), ok1, ok2, l1, l2)
             IN  [poll |-> p, button_pressed |-> button_pressed,
                  led_state |-> (IF button_pressed /\ ~lbs THEN ~ls ELSE ls),
                  last_button_state |-> button_pressed,
                  set |-> <<LedOp("set_state", (IF button_pressed /\ ~lbs THEN ~ls ELSE ls), w.ret, w.writes,
                                  <<l1, l2>>, <<w.led1, w.led2>>)>>,
                  led1 |-> w.led1, led2 |-> w.led2, writes |-> w.writes,
                  events |-> <<PollEvent>> \o WriteEvents(w.writes) \o <<DelayEvent>>,
                  ret |-> Running]
        ELSE [poll |-> p, button_pressed |-> button_pressed,
              led_state |-> ls, last_button_state |-> button_pressed,
              set |-> <<>>, led1 |-> l1, led2 |-> l2, writes |-> <<>>,
              events |-> <<PollEvent, DelayEvent>>,
              ret |-> Running]

\* The loop body with the plausible slip of propagating a read error with
\* `?` instead of logging it.
main_loop_propagates_read_error(is_low, ok1, ok2, last, ls, lbs, l1, l2) ==
    LET p == is_pressed(is_low, last)
        button_pressed == IF IsOk(p.ret) THEN p.ret.val ELSE FALSE
    IN  IF button_pressed /\ ~lbs
        THEN LET w == set_state(~ls, ok1, ok2, l1, l2)
             IN  [poll |-> p, button_pressed |-> button_pressed,
                  led_state |-> ~ls,
                  last_button_state |-> button_pressed,
                  set |-> <<LedOp("set_state", ~ls, w.ret, w.writes,
                                  <<l1, l2>>, <<w.led1, w.led2>>)>>,
                  led1 |-> w.led1, led2 |-> w.led2, writes |-> w.writes,
                  events |-> <<PollEvent>> \o WriteEvents(w.writes) \o <<DelayEvent>>,
                  ret |-> Running]
        ELSE [poll |-> p, button_pressed |-> button_pressed,
              led_state |-> ls, last_button_state |-> button_pressed,
              set |-> <<>>, led1 |-> l1, led2 |-> l2, writes |-> <<>>,
              events |-> IF IsErr(p.ret) THEN <<PollEvent>> ELSE <<PollEvent, DelayEvent>>,
              ret |-> IF IsErr(p.ret) THEN p.ret ELSE Running]

\* The loop body with the plausible slip of taking the flip of led_state
\* back when set_state fails.
main_loop_reverts_on_failure(is_low, ok1, ok2, last, ls, lbs, l1, l2) ==
    LET p == is_pressed(is_low, last)
        button_pressed == IF IsOk(p.ret) THEN p.ret.val ELSE FALSE
    IN  IF button_pressed /\ ~lbs
        THEN LET w == set_state(~ls, ok1, ok2, l1, l2)
             IN  [poll |-> p, button_pressed |-> button_pressed,
                  led_state |-> (IF IsErr(w.ret) THEN ls ELSE ~ls),
                  last_button_state |-> button_pressed,
                  set |-> <<LedOp("set_state", ~ls, w.ret, w.writes,
                                  <<l1, l2>>, <<w.led1, w.led2>>)>>,
                  led1 |-> w.led1, led2 |-> w.led2, writes |-> w.writes,
                  events |-> <<PollEvent>> \o WriteEvents(w.writes) \o <<DelayEvent>>,
                  ret |-> Running]
        ELSE [poll |-> p, button_pressed |-> button_pressed,
              led_state |-> ls, last_button_state |-> button_pressed,
              set |-> <<>>, led1 |-> l1, led2 |-> l2, writes |-> <<>>,
              events |-> <<PollEvent, DelayEvent>>,
              ret |-> Running]

\* The loop body with the plausible slip of sleeping only after a press.
main_loop_no_delay(is_low, ok1, ok2, last, ls, lbs, l1, l2) ==
    LET p == is_pressed(is_low, last)
        button_pressed == IF IsOk(p.ret) THEN p.ret.val ELSE FALSE
    IN  IF button_pressed /\ ~lbs
        THEN LET w == set_state(~ls, ok1, ok2, l1, l2)
             IN  [poll |-> p, button_pressed |-> button_pressed,
                  led_state |-> ~ls,
                  last_button_state |-> button_pressed,
                  set |-> <<LedOp("set_state", ~ls, w.ret, w.writes,
                                  <<l1, l2>>, <<w.led1, w.led2>>)>>,
                  led1 |-> w.led1, led2 |-> w.led2, writes |-> w.writes,
                  events |-> <<PollEvent>> \o WriteEvents(w.writes) \o <<DelayEvent>>,
                  ret |-> Running]
        ELSE [poll |-> p, button_pressed |-> button_pressed,
              led_state |-> ls, last_button_state |-> button_pressed,
              set |-> <<>>, led1 |-> l1, led2 |-> l2, writes |-> <<>>,
              events |-> <<PollEvent>>,
              ret |-> Running]

\* One iteration of the loop of main, from the poll to the 50 ms delay:
\* is_low is what the pin read gives, ok1 and ok2 whether the LED writes
\* succeed; last is ButtonController.last_state, ls and lbs the locals
\* led_state and last_button_state, l1 and l2 the LED levels.  The loop has
\* no break and no return: ret is always Running.
main_loop(is_low, ok1, ok2, last, ls, lbs, l1, l2) ==
    LET p == is_pressed(is_low, last)
        button_pressed == IF IsOk(p.ret) THEN p.ret.val ELSE FALSE
    IN  IF button_pressed /\ ~lbs
        THEN LET w == set_state(~ls, ok1, ok2, l1, l2)
             IN  [poll |-> p, button_pressed |-> button_pressed,
                  led_state |-> ~ls,
                  last_button_state |-> button_pressed,
                  set |-> <<LedOp("set_state", ~ls, w.ret, w.writes,
                                  <<l1, l2>>, <<w.led1, w.led2>>)>>,
                  led1 |-> w.led1, led2 |-> w.led2, writes |-> w.writes,
                  events |-> <<PollEvent>> \o WriteEvents(w.writes) \o <<DelayEvent>>,
                  ret |-> Running]
        ELSE [poll |-> p, button_pressed |-> button_pressed,
              led_state |-> ls, last_button_state |-> button_pressed,
              set |-> <<>>, led1 |-> l1, led2 |-> l2, writes |-> <<>>,
              events |-> <<PollEvent, DelayEvent>>,
              ret |-> Running]

\* LedController::new: PinDriver::output on the two pins, in order.
led_controller_new(led1_ok, led2_ok) ==
    IF ~led1_ok THEN Err("LED1 pin configuration failed")
    ELSE IF ~led2_ok THEN Err("LED2 pin configuration failed")
    ELSE Ok("LedController")

\* ButtonController::new: PinDriver::input, then set_pull(Pull::Up).
button_controller_new(input_ok, pull_ok) ==
    IF ~input_ok THEN Err("Button pin configuration failed")
    ELSE IF ~pull_ok THEN Err("Button pull-up configuration failed")
    ELSE Ok("ButtonController")

\* main before its loop: Peripherals::take(), LedController::new and
\* ButtonController::new; each failure makes main return its own error,
\* and with all three done main goes on to its loop (Running).
main_setup(take_ok, led1_ok, led2_ok, input_ok, pull_ok) ==
    IF ~take_ok THEN Err("Failed to acquire peripherals")
    ELSE IF IsErr(led_controller_new(led1_ok, led2_ok))
         THEN Err("LED controller initialization failed")
    ELSE IF IsErr(button_controller_new(input_ok, pull_ok))
         THEN Err("Button controller initialization failed")
         ELSE Running

\* main before its loop: the setup, then let mut led_state = false;
\* let mut last_button_state = false;
MainStart ==
    /\ led_state = FALSE
    /\ last_button_state = FALSE
    /\ iters = <<>>
    /\ \E take_ok \in BOOLEAN, led1_ok \in BOOLEAN, led2_ok \in BOOLEAN,
          input_ok \in BOOLEAN, pull_ok \in BOOLEAN :
           main_ret = main_setup(take_ok, led1_ok, led2_ok, input_ok, pull_ok)

MainLoop ==
    /\ main_ret = Running
    /\ Len(polls) < MaxIter
    /\ \E is_low \in PinReads, ok1 \in BOOLEAN, ok2 \in BOOLEAN :
           LET r == main_loop(is_low, ok1, ok2, last_state, led_state,
                              last_button_state, led1, led2)
           IN  /\ last_state' = r.poll.last_state
               /\ polls' = Append(polls, [read |-> is_low, ret |-> r.poll.ret,
                                          before |-> last_state,
                                          after |-> r.poll.last_state])
               /\ led_state' = r.led_state
               /\ last_button_state' = r.last_button_state
               /\ led1' = r.led1
               /\ led2' = r.led2
               /\ writes' = writes \o r.writes
               /\ led_ops' = led_ops \o r.set
               /\ main_ret' = r.ret
               /\ iters' = Append(iters,
                      [button_pressed |-> r.button_pressed,
                       led_before |-> led_state, led_after |-> r.led_state,
                       lbs_before |-> last_button_state,
                       set |-> r.set, events |-> r.events, ret |-> r.ret,
                       levels |-> <<r.led1, r.led2>>])
    /\ UNCHANGED <<retryVars, timerVars, waitVars,
                 recoveryVars, sensorVars>>

(***************************************************************************)
(* handle_error_with_recovery.  The result handed in is Ok or one of two   *)
(* errors; recovery_fn is a closure of the caller, and `recovery` is what  *)
(* it returns when it is called.                                            *)
(***************************************************************************)
HandledResults == {Ok("value"), Err("e1"), Err("e2")}
RecoveryResults == {Ok("recovered"), Err("r1")}

\* handle_error_with_recovery with the plausible slip of returning the
\* original error when the recovery fails.
handle_error_with_recovery_keeps_original(result, recovery) ==
    IF IsOk(result)
    THEN [ret |-> result, recovery_calls |-> <<>>, log |-> <<>>]
    ELSE IF IsOk(recovery)
         THEN [ret |-> recovery, recovery_calls |-> <<recovery>>,
               log |-> <<"warn", "info">>]
         ELSE [ret |-> result, recovery_calls |-> <<recovery>>,
               log |-> <<"warn", "error">>]

\* handle_error_with_recovery(result, context, recovery_fn): the value
\* returned, the results of the calls of recovery_fn it made, and the
\* levels of the lines it logged.
handle_error_with_recovery(result, recovery) ==
    IF IsOk(result)
    THEN \* Ok(value) => Ok(value)
         [ret |-> result, recovery_calls |-> <<>>, log |-> <<>>]
    ELSE \* warn!(...); match recovery_fn() { ... }
         IF IsOk(recovery)
         THEN [ret |-> recovery, recovery_calls |-> <<recovery>>,
               log |-> <<"warn", "info">>]
         ELSE [ret |-> recovery, recovery_calls |-> <<recovery>>,
               log |-> <<"warn", "error">>]

\* No call of handle_error_with_recovery made yet.
NoneHandled == handled = <<>>

\* One call of handle_error_with_recovery.
HandleErrorWithRecovery ==
    /\ Len(handled) < MaxHandled
    /\ \E result \in HandledResults, recovery \in RecoveryResults :
           LET r == handle_error_with_recovery(result, recovery)
           IN  handled' = Append(handled,
                   [result |-> result, recovery |-> recovery,
                    recovery_calls |-> r.recovery_calls,
                    log |-> r.log, ret |-> r.ret])
    /\ UNCHANGED <<buttonVars, ledVars, retryVars, timerVars, mainVars,
                   waitVars, sensorVars>>

(***************************************************************************)
(* SensorTask.  The f32 fields are kept in hundredths of their unit: 25.0  *)
(* is 2500 and 1013.25 is 101325.  A sample s of RandomRatios is the value *)
(* of esp_random() as f32 / u32::MAX as f32: 0 for the raw value 0 and 1   *)
(* for the raw value u32::MAX; the noise added is (s - 0.5) * span, exact  *)
(* in f32 for these samples.                                                *)
(***************************************************************************)
TemperatureBase == 2500
HumidityBase == 5000
PressureBase == 101325
TemperatureSpan == 200
HumiditySpan == 500
PressureSpan == 1000
SensorLoopDelayMs == 5000
RandomRatios == {0, 1}
NotActive == Err("Sensor task not active")

\* (sample - 0.5) * span
noise(sample, span) == sample * span - span \div 2

\* SensorTask::new.
SensorNew ==
    /\ temperature = 0
    /\ humidity = 0
    /\ pressure = 0
    /\ is_active = FALSE
    /\ sensor_run = Idle
    /\ sensor_ops = <<>>

\* SensorTask::start: the new fields.
start(active, temp, hum, pres) ==
    [ret |-> Ok("unit"), is_active |-> TRUE, temperature |-> TemperatureBase,
     humidity |-> HumidityBase, pressure |-> PressureBase]

\* SensorTask::stop: the new fields.
stop(active, temp, hum, pres) ==
    [ret |-> Ok("unit"), is_active |-> FALSE, temperature |-> temp,
     humidity |-> hum, pressure |-> pres]

\* SensorTask::read_temperature with random sample s.
read_temperature(active, temp, s) ==
    IF ~active THEN [ret |-> NotActive, temperature |-> temp]
    ELSE LET t == TemperatureBase + noise(s, TemperatureSpan)
         IN  [ret |-> Ok(t), temperature |-> t]

\* read_humidity with the plausible slip of leaving out the is_active test.
read_humidity_unguarded(active, hum, s) ==
    LET h == HumidityBase + noise(s, HumiditySpan)
    IN  [ret |-> Ok(h), humidity |-> h]

\* SensorTask::read_humidity with random sample s.
read_humidity(active, hum, s) ==
    IF ~active THEN [ret |-> NotActive, humidity |-> hum]
    ELSE LET h == HumidityBase + noise(s, HumiditySpan)
         IN  [ret |-> Ok(h), humidity |-> h]

\* SensorTask::read_pressure with random sample s.
read_pressure(active, pres, s) ==
    IF ~active THEN [ret |-> NotActive, pressure |-> pres]
    ELSE LET q == PressureBase + noise(s, PressureSpan)
         IN  [ret |-> Ok(q), pressure |-> q]

\* SensorTask::read_all_sensors: the three reads in order, each `?`
\* returning the first error with the fields written so far.
read_all_sensors(active, temp, hum, pres, s1, s2, s3) ==
    LET t == read_temperature(active, temp, s1)
        h == read_humidity(active, hum, s2)
        q == read_pressure(active, pres, s3)
    IN  IF IsErr(t.ret)
        THEN [ret |-> t.ret, temperature |-> temp, humidity |-> hum,
              pressure |-> pres]
        ELSE IF IsErr(h.ret)
             THEN [ret |-> h.ret, temperature |-> t.temperature,
                   humidity |-> hum, pressure |-> pres]
        ELSE IF IsErr(q.ret)
             THEN [ret |-> q.ret, temperature |-> t.temperature,
                   humidity |-> h.humidity, pressure |-> pres]
             ELSE [ret |-> Ok(<<t.ret.val, h.ret.val, q.ret.val>>),
                   temperature |-> t.temperature, humidity |-> h.humidity,
                   pressure |-> q.pressure]

\* SensorTask::run_loop: the is_active test at entry (looping is FALSE),
\* then one pass of its loop; the loop has no break and no return, so ret
\* is Running once the test has passed.
run_loop(looping, active, temp, hum, pres, s1, s2, s3) ==
    IF ~looping /\ ~active
    THEN [ret |-> NotActive, temperature |-> temp, humidity |-> hum,
          pressure |-> pres, read |-> <<>>, sleep |-> <<>>]
    ELSE LET r == read_all_sensors(active, temp, hum, pres, s1, s2, s3)
         IN  [ret |-> Running, temperature |-> r.temperature,
              humidity |-> r.humidity, pressure |-> r.pressure,
              read |-> <<r.ret>>, sleep |-> <<SensorLoopDelayMs>>]

SensorFields ==
    [is_active |-> is_active, temperature |-> temperature,
     humidity |-> humidity, pressure |-> pressure]
LatestOps(h) ==
    IF Len(h) <= MaxSensorOps THEN h
    ELSE SubSeq(h, Len(h) - MaxSensorOps + 1, Len(h))
\* One call is recorded with the value it returned and the fields before
\* and after it.
SensorOp(op, ret, after) ==
    LatestOps(Append(sensor_ops, [op |-> op, ret |-> ret,
                                  before |-> SensorFields, after |-> after]))
SensorFrame ==
    UNCHANGED <<buttonVars, ledVars, retryVars, timerVars, mainVars,
                waitVars, recoveryVars>>

Start ==
    /\ sensor_run = Idle
    /\ LET r == start(is_active, temperature, humidity, pressure)
       IN  /\ is_active' = r.is_active
           /\ temperature' = r.temperature
           /\ humidity' = r.humidity
           /\ pressure' = r.pressure
           /\ sensor_ops' = SensorOp("start", r.ret,
                  [is_active |-> r.is_active, temperature |-> r.temperature,
                   humidity |-> r.humidity, pressure |-> r.pressure])
    /\ UNCHANGED sensor_run
    /\ SensorFrame

Stop ==
    /\ sensor_run = Idle
    /\ LET r == stop(is_active, temperature, humidity, pressure)
       IN  /\ is_active' = r.is_active
           /\ temperature' = r.temperature
           /\ humidity' = r.humidity
           /\ pressure' = r.pressure
           /\ sensor_ops' = SensorOp("stop", r.ret,
                  [is_active |-> r.is_active, temperature |-> r.temperature,
                   humidity |-> r.humidity, pressure |-> r.pressure])
    /\ UNCHANGED sensor_run
    /\ SensorFrame

ReadTemperature ==
    /\ sensor_run = Idle
    /\ \E s \in RandomRatios :
           LET r == read_temperature(is_active, temperature, s)
           IN  /\ temperature' = r.temperature
               /\ sensor_ops' = SensorOp("read_temperature", r.ret,
                      [SensorFields EXCEPT !.temperature = r.temperature])
    /\ UNCHANGED <<humidity, pressure, is_active, sensor_run>>
    /\ SensorFrame

ReadHumidity ==
    /\ sensor_run = Idle
    /\ \E s \in RandomRatios :
           LET r == read_humidity(is_active, humidity, s)
           IN  /\ humidity' = r.humidity
               /\ sensor_ops' = SensorOp("read_humidity", r.ret,
                      [SensorFields EXCEPT !.humidity = r.humidity])
    /\ UNCHANGED <<temperature, pressure, is_active, sensor_run>>
    /\ SensorFrame

ReadPressure ==
    /\ sensor_run = Idle
    /\ \E s \in RandomRatios :
           LET r == read_pressure(is_active, pressure, s)
           IN  /\ pressure' = r.pressure
               /\ sensor_ops' = SensorOp("read_pressure", r.ret,
                      [SensorFields EXCEPT !.pressure = r.pressure])
    /\ UNCHANGED <<temperature, humidity, is_active, sensor_run>>
    /\ SensorFrame

ReadAllSensors ==
    /\ sensor_run = Idle
    /\ \E s1 \in RandomRatios, s2 \in RandomRatios, s3 \in RandomRatios :
           LET r == read_all_sensors(is_active, temperature, humidity,
                                     pressure, s1, s2, s3)
           IN  /\ temperature' = r.temperature
               /\ humidity' = r.humidity
               /\ pressure' = r.pressure
               /\ sensor_ops' = SensorOp("read_all_sensors", r.ret,
                      [is_active |-> is_active,
                       temperature |-> r.temperature,
                       humidity |-> r.humidity, pressure |-> r.pressure])
    /\ UNCHANGED <<is_active, sensor_run>>
    /\ SensorFrame

\* run_loop is entered, or goes round once more: it holds the task
\* (&mut self) for as long as it loops, so no other call can come between.
RunLoop ==
    /\ \E s1 \in RandomRatios, s2 \in RandomRatios, s3 \in RandomRatios :
           LET r == run_loop(sensor_run = Running, is_active, temperature,
                             humidity, pressure, s1, s2, s3)
           IN  /\ temperature' = r.temperature
               /\ humidity' = r.humidity
               /\ pressure' = r.pressure
               /\ sensor_run' = IF IsErr(r.ret) THEN Idle ELSE r.ret
               /\ sensor_ops' = SensorOp("run_loop", r.ret,
                      [is_active |-> is_active,
                       temperature |-> r.temperature,
                       humidity |-> r.humidity, pressure |-> r.pressure])
    /\ UNCHANGED is_active
    /\ SensorFrame

(***************************************************************************)
(* Specifications.                                                          *)
(***************************************************************************)
\* The state when main has run its setup: it has returned an error, or
\* every component is constructed; no call of retry_with_backoff is under
\* way and the timer is just created.
Constructed ==
    /\ ButtonNew
    /\ LedNew
    /\ MainStart
    /\ NoneHandled
    /\ SensorNew

RetryIdle == RetryEntry(1, u32(0), FALSE)
TimerIdle == TimerNew(0, 0)

\* The firmware: main's loop driving the button and the LEDs.
Init == Constructed /\ RetryIdle /\ TimerIdle /\ WaitIdle
Next == MainLoop
Spec == Init /\ [][Next]_vars

\* The components in the hands of a caller: every constructor succeeded.
InitComponents == Init /\ main_ret = Running

\* ButtonController polled on its own.
NextButton == IsPressed
SpecButton == InitComponents /\ [][NextButton]_vars

\* LedController driven on its own.
NextLed ==
    \/ SetLed1
    \/ SetLed2
    \/ SetState
    \/ ToggleLed1
    \/ ToggleLed2
    \/ GetLed1State
    \/ GetLed2State
SpecLed == InitComponents /\ [][NextLed]_vars

\* One call of retry_with_backoff, for every max_attempts, initial delay
\* and build profile of the model.
InitRetry ==
    /\ Constructed
    /\ main_ret = Running
    /\ TimerIdle
    /\ WaitIdle
    /\ \E max \in 0 .. MaxAttempts, initial \in InitialDelays,
          checks \in BOOLEAN : RetryEntry(max, initial, checks)
NextRetry ==
    \/ RetryAttempt
    \/ RetryWake
SpecRetry == InitRetry /\ [][NextRetry]_vars

\* One Timer under the advancing clock.
InitTimer ==
    /\ Constructed
    /\ main_ret = Running
    /\ RetryIdle
    /\ WaitIdle
    /\ \E t \in 0 .. 1, dur \in Durations : TimerNew(t, dur)
NextTimer ==
    \/ Tick
    \/ HasExpired
    \/ RemainingMs
    \/ Reset
    \/ ResetWithDuration
SpecTimer == InitTimer /\ [][NextTimer]_vars

\* One call of wait_for_press on a controller whose last_state is either
\* level (it has been polled before), for every timeout of the model.  The
\* single thread of control keeps running the loop, and delay_ms returns.
InitWait ==
    /\ last_state \in BOOLEAN
    /\ polls = <<>>
    /\ LedNew
    /\ MainStart
    /\ main_ret = Running
    /\ NoneHandled
    /\ SensorNew
    /\ RetryIdle
    /\ start_time = 0 /\ duration_ms = 0 /\ timer_calls = <<>> /\ resets = <<>>
    /\ \E t \in {0, 7}, timeout \in Timeouts : WaitEntry(t, timeout)
NextWait == WaitPoll
SpecWait == InitWait /\ [][NextWait]_vars
SpecWaitFair == SpecWait /\ WF_vars(WaitPoll)

\* Calls of handle_error_with_recovery, one after the other.
NextRecovery == HandleErrorWithRecovery
SpecRecovery == InitComponents /\ [][NextRecovery]_vars

\* One SensorTask and its callers.
NextSensor ==
    \/ Start
    \/ Stop
    \/ ReadTemperature
    \/ ReadHumidity
    \/ ReadPressure
    \/ ReadAllSensors
    \/ RunLoop
SpecSensor == InitComponents /\ [][NextSensor]_vars

(***************************************************************************)
(* Properties.                                                              *)
(***************************************************************************)
\* The polls whose pin read succeeded, in order.
OkPolls == SelectSeq(polls, LAMBDA p : IsOk(p.read))
AllReadsOk == \A i \in 1 .. Len(polls) : IsOk(polls[i].read)
\* The raw levels read by the polls (all reads successful).
RawLevels == [i \in 1 .. Len(polls) |-> polls[i].read.val]
\* The value reported by poll i of sequence ps is Ok(b).
Reported(ps, i, b) == IsOk(ps[i].ret) /\ ps[i].ret.val = b
\* The scenario of the edge-detection property: five successful polls of
\* a fresh controller reading Released, Pressed, Pressed, Released, Pressed.
EdgeScenario ==
    /\ Len(polls) = 5
    /\ AllReadsOk
    /\ RawLevels = <<Released, Pressed, Pressed, Released, Pressed>>

\* C1 as claimed: in the scenario the four samples after the first are
\* reported as true, false, true, true (the release is reported as true).
C1_AsClaimed ==
    EdgeScenario =>
        /\ Reported(polls, 2, TRUE)
        /\ Reported(polls, 3, FALSE)
        /\ Reported(polls, 4, TRUE)
        /\ Reported(polls, 5, TRUE)

\* C1 amended: in the scenario the four samples after the first are reported
\* as true, false, false, true: each change to Pressed is reported as true
\* exactly once; the change to Released is stored in last_state and
\* reported as false.
C1_EdgeDetection ==
    EdgeScenario =>
        /\ Reported(polls, 1, FALSE)
        /\ Reported(polls, 2, TRUE)
        /\ Reported(polls, 3, FALSE)
        /\ Reported(polls, 4, FALSE)
        /\ Reported(polls, 5, TRUE)
        /\ polls[4].after = Released
        /\ last_state = Pressed

C1_Witness == EdgeScenario

\* The raw level of the successful poll before the i-th successful poll
\* (Released, the constructed last_state, before the first).
PrevOkLevel(i) == IF i = 1 THEN Released ELSE OkPolls[i - 1].read.val

\* C2: among the successful polls, is_pressed() returns true only on the
\* first sample of a run of identical raw levels (the sample that differs
\* from the one before it), hence at most once per run, and false on every
\* later sample of the run.
C2_DebounceIdempotence ==
    \A i \in 1 .. Len(OkPolls) :
        /\ IsOk(OkPolls[i].ret)
        /\ OkPolls[i].ret.val = TRUE => OkPolls[i].read.val # PrevOkLevel(i)
        /\ OkPolls[i].read.val = PrevOkLevel(i) => OkPolls[i].ret.val = FALSE

\* A run of three Pressed samples: reported once, then false twice.
C2_Witness ==
    /\ Len(OkPolls) >= 3
    /\ \A i \in 1 .. 3 : OkPolls[i].read.val = Pressed
    /\ Reported(OkPolls, 1, TRUE)
    /\ Reported(OkPolls, 2, FALSE)
    /\ Reported(OkPolls, 3, FALSE)

\* The raw level of the last successful poll before poll i (Released, the
\* constructed last_state, when there is none).
RECURSIVE LastOkLevel(_)
LastOkLevel(i) ==
    IF i = 1 THEN Released
    ELSE IF IsOk(polls[i - 1].read) THEN polls[i - 1].read.val
         ELSE LastOkLevel(i - 1)

\* C9: a poll whose pin read fails returns the error and leaves last_state
\* as it was; every successful poll is compared against the level of the
\* last successful poll before it, whatever failed in between.
C9_ReadFailureKeepsState ==
    \A i \in 1 .. Len(polls) :
        /\ IsErr(polls[i].read) =>
               /\ IsErr(polls[i].ret)
               /\ polls[i].after = polls[i].before
               /\ polls[i].after = LastOkLevel(i)
        /\ IsOk(polls[i].read) =>
               /\ IsOk(polls[i].ret)
               /\ polls[i].ret.val =
                      (polls[i].read.val /\ polls[i].read.val # LastOkLevel(i))
               /\ polls[i].after = polls[i].read.val

\* Released read, then a failed read, then Pressed read: the press that
\* happened around the failed read is reported by the next successful poll.
C9_Witness ==
    /\ Len(polls) >= 3
    /\ IsOk(polls[1].read) /\ polls[1].read.val = Released
    /\ IsErr(polls[2].read) /\ IsErr(polls[2].ret)
    /\ IsOk(polls[3].read) /\ polls[3].read.val = Pressed
    /\ Reported(polls, 3, TRUE)

\* The calls that drive an output: the writes and the toggles.
IsLedWriteOp(o) ==
    o.op \in {"set_led1", "set_led2", "set_state", "toggle_led1", "toggle_led2"}

\* Call i was set_state and returned Ok, and no write or toggle was called
\* after it up to and including call j.
SetStateStands(i, j) ==
    /\ led_ops[i].op = "set_state"
    /\ IsOk(led_ops[i].ret)
    /\ \A k \in i + 1 .. j : ~IsLedWriteOp(led_ops[k])

\* C6: after set_state(L) returned Ok, and until the next write or toggle,
\* both outputs are at level L and every successful get_led1_state and
\* get_led2_state reads back L.
C6_SetStateSuccess ==
    \A i \in 1 .. Len(led_ops) :
        /\ SetStateStands(i, i) =>
               led_ops[i].after = <<led_ops[i].arg, led_ops[i].arg>>
        /\ SetStateStands(i, Len(led_ops)) =>
               /\ led1 = led_ops[i].arg
               /\ led2 = led_ops[i].arg
        /\ \A j \in i + 1 .. Len(led_ops) :
               ( /\ SetStateStands(i, j)
                 /\ led_ops[j].op \in {"get_led1_state", "get_led2_state"}
                 /\ IsOk(led_ops[j].ret) )
               => led_ops[j].ret.val = led_ops[i].arg

\* set_state(TRUE) returned Ok with both outputs low before it, and both
\* getters then read back TRUE.
C6_Witness ==
    /\ Len(led_ops) = 3
    /\ led_ops[1].op = "set_state" /\ led_ops[1].arg = TRUE
    /\ IsOk(led_ops[1].ret)
    /\ led_ops[1].before = <<FALSE, FALSE>>
    /\ led_ops[2].op = "get_led1_state" /\ IsOk(led_ops[2].ret)
    /\ led_ops[2].ret.val = TRUE
    /\ led_ops[3].op = "get_led2_state" /\ IsOk(led_ops[3].ret)
    /\ led_ops[3].ret.val = TRUE

\* C10: set_state(L) writes LED1 first and LED2 second and stops at the
\* first failing write: when the LED1 write fails LED2 is not written and
\* keeps its level; when the LED2 write fails LED1 stays at L and the error
\* of the LED2 write is returned.
C10_SetStateOrderAndStop ==
    \A i \in 1 .. Len(led_ops) :
        led_ops[i].op = "set_state" =>
            LET o == led_ops[i]
                L == o.arg
            IN  /\ Len(o.writes) \in {1, 2}
                /\ o.writes[1].pin = 1 /\ o.writes[1].level = L
                /\ Len(o.writes) = 2 =>
                       o.writes[2].pin = 2 /\ o.writes[2].level = L
                /\ ~o.writes[1].ok =>
                       /\ Len(o.writes) = 1
                       /\ o.after[2] = o.before[2]
                       /\ IsErr(o.ret)
                       /\ o.ret.val = "LED1 state setting failed"
                /\ o.writes[1].ok =>
                       /\ Len(o.writes) = 2
                       /\ o.after[1] = L
                /\ (o.writes[1].ok /\ ~o.writes[Len(o.writes)].ok) =>
                       /\ o.after[1] = L
                       /\ o.after[2] = o.before[2]
                       /\ IsErr(o.ret)
                       /\ o.ret.val = "LED2 state setting failed"
                /\ IsOk(o.ret) <=> \A k \in 1 .. Len(o.writes) : o.writes[k].ok

\* Both partial failures happened: a set_state whose LED1 write failed with
\* LED2 at the other level, and one whose LED2 write failed after LED1 had
\* been driven to the new level.
C10_Witness ==
    /\ \E i \in 1 .. Len(led_ops) :
           /\ led_ops[i].op = "set_state"
           /\ ~led_ops[i].writes[1].ok
           /\ led_ops[i].before[2] # led_ops[i].arg
    /\ \E i \in 1 .. Len(led_ops) :
           /\ led_ops[i].op = "set_state"
           /\ Len(led_ops[i].writes) = 2
           /\ ~led_ops[i].writes[2].ok
           /\ led_ops[i].before[1] # led_ops[i].arg
           /\ led_ops[i].after = <<led_ops[i].arg, ~led_ops[i].arg>>

RetryDone == retry_ret # Running
AllButLastFailed == \A i \in 1 .. Len(calls) - 1 : IsErr(calls[i])

\* C3 as claimed: for max_attempts >= 1 a finished call has invoked the
\* operation exactly min(k, max_attempts) times, k the first successful
\* invocation, and has returned Ok iff k <= max_attempts: it ended either
\* on its first Ok result, within max_attempts calls and returning Ok, or
\* after exactly max_attempts failed calls, returning Err.
C3_AsClaimed ==
    (RetryDone /\ max_attempts >= 1) =>
        /\ Len(calls) >= 1
        /\ AllButLastFailed
        /\ IF IsOk(calls[Len(calls)])
           THEN Len(calls) <= max_attempts /\ IsOk(retry_ret)
           ELSE Len(calls) = max_attempts /\ IsErr(retry_ret)

\* sleeps[k] is exactly initial_delay_ms * 2^(k-1): the first sleep is the
\* initial delay and each later one the true double of the one before.
ExactDoubling(k) ==
    IF k = 1 THEN sleeps[1] = initial_delay_ms
    ELSE /\ ~mul2_overflows(sleeps[k - 1])
         /\ sleeps[k] = wrapping_mul2(sleeps[k - 1])

\* C4 as claimed: the sleeps are initial_delay_ms, 2 * initial_delay_ms,
\* 4 * initial_delay_ms, ...; a finished call has slept once after every
\* failed attempt that was followed by another attempt and at no other
\* time, so one time less than it invoked the operation.
C4_AsClaimed ==
    /\ \A k \in 1 .. Len(sleeps) : ExactDoubling(k)
    /\ RetryDone =>
           /\ Len(sleeps) = Len(calls) - 1
           /\ max_attempts = 1 => sleeps = <<>>
           /\ (initial_delay_ms = u32(100) /\ Len(calls) = 3
               /\ IsErr(calls[3])) => sleeps = <<u32(100), u32(200)>>
           /\ initial_delay_ms = u32(0) =>
                  \A k \in 1 .. Len(sleeps) : sleeps[k] = u32(0)

\* C5: the operation is never invoked again after an invocation that
\* succeeded, and a call that returns Err returns the error of the last
\* invocation, which failed.
C5_NoRetryOnSuccessLastError ==
    /\ AllButLastFailed
    /\ (Len(calls) >= 1 /\ IsOk(calls[Len(calls)])) => retry_ret = calls[Len(calls)]
    /\ IsErr(retry_ret) =>
           /\ Len(calls) >= 1
           /\ retry_ret = calls[Len(calls)]

\* Three failed invocations with the errors e1, e1, e2: Err(e2) is returned.
C5_Witness ==
    /\ calls = <<Err("e1"), Err("e1"), Err("e2")>>
    /\ retry_ret = Err("e2")

\* C7: between resets and under the non-decreasing clock, successive
\* remaining_ms() results never increase, and every remaining_ms() call made
\* after a has_expired() call that returned true returns 0.
C7_TimerMonotonicity ==
    \A i \in 1 .. Len(timer_calls) : \A j \in i + 1 .. Len(timer_calls) :
        /\ timer_calls[i].at <= timer_calls[j].at
        /\ (timer_calls[i].op = "remaining_ms"
            /\ timer_calls[j].op = "remaining_ms")
           => timer_calls[j].ret <= timer_calls[i].ret
        /\ (timer_calls[i].op = "has_expired" /\ timer_calls[i].ret = TRUE
            /\ timer_calls[j].op = "remaining_ms")
           => timer_calls[j].ret = 0

\* A timer started after boot: remaining_ms() was positive, then
\* has_expired() returned true, then remaining_ms() returned 0.
C7_Witness ==
    /\ start_time > 0
    /\ Len(timer_calls) = 3
    /\ timer_calls[1].op = "remaining_ms" /\ timer_calls[1].ret > 0
    /\ timer_calls[2].op = "has_expired" /\ timer_calls[2].ret = TRUE
    /\ timer_calls[3].op = "remaining_ms" /\ timer_calls[3].ret = 0

\* Every pin read and every LED write so far succeeded.
NoFailure ==
    /\ AllReadsOk
    /\ \A i \in 1 .. Len(writes) : writes[i].ok

\* The Pressed edges of the polled raw levels: the polls that read Pressed
\* while the poll before read Released (the button is taken as Released
\* before the first poll).
PressedEdges ==
    Cardinality({i \in 1 .. Len(polls) :
                    /\ polls[i].read.val = Pressed
                    /\ (i = 1 \/ polls[i - 1].read.val = Released)})

\* C8: with all reads and writes succeeding, after n Pressed edges
\* led_state is Asserted iff n is odd and both LEDs read back led_state
\* (Deasserted at the start, Asserted after the first edge, Deasserted
\* again after the second).
C8_EndToEndToggle ==
    NoFailure =>
        /\ led_state = (PressedEdges % 2 = 1)
        /\ led1 = led_state
        /\ led2 = led_state
        /\ get_led1_state(TRUE, led1) = Ok(led_state)
        /\ get_led2_state(TRUE, led2) = Ok(led_state)
        /\ Len(led_ops) = PressedEdges

\* Press, release, press: the first edge switched both LEDs on, the second
\* switched them off again.
C8_Witness ==
    /\ NoFailure
    /\ PressedEdges = 2
    /\ Len(led_ops) = 2
    /\ led_ops[1].after = <<TRUE, TRUE>>
    /\ led_ops[2].after = <<FALSE, FALSE>>
    /\ led_state = FALSE /\ led1 = FALSE /\ led2 = FALSE

WaitDone == wait_ret.tag # "Running"
AnyReadFailed == \E i \in 1 .. Len(polls) : IsErr(polls[i].read)
AnyPollTrue ==
    \E i \in 1 .. Len(polls) : IsOk(polls[i].ret) /\ polls[i].ret.val = TRUE

\* C11: wait_for_press(timeout_ms) always returns while the clock advances;
\* when no poll reported a transition and no read failed it returns
\* Ok(false), with more than timeout_ms elapsed since the call started; it
\* returns an error only when the pin read of its last poll failed.
C11_WaitReturns ==
    /\ <>WaitDone
    /\ [](WaitDone =>
            /\ Len(polls) >= 1
            /\ IsErr(wait_ret) => IsErr(polls[Len(polls)].read)
            /\ (~AnyPollTrue /\ ~AnyReadFailed) =>
                   /\ IsOk(wait_ret)
                   /\ wait_ret.val = FALSE
                   /\ now - wait_start > timeout_ms)

\* The longest timeout ran out: three polls without a press, then Ok(false).
C11_Witness ==
    /\ WaitDone
    /\ timeout_ms = MaxTimeout
    /\ Len(polls) >= 3
    /\ AllReadsOk
    /\ IsOk(wait_ret) /\ wait_ret.val = FALSE

\* A read failure ended the wait at once with its error: only the last
\* poll can have failed, and then the call returned that poll's error.
WaitEndsOnReadFailure ==
    /\ \A i \in 1 .. Len(polls) - 1 : IsOk(polls[i].read)
    /\ (WaitDone /\ Len(polls) >= 1 /\ IsErr(polls[Len(polls)].read)) =>
           /\ IsErr(wait_ret)
           /\ wait_ret = polls[Len(polls)].ret
    /\ AnyReadFailed => WaitDone

\* C16 as claimed: a finished wait_for_press returned Ok(true) iff one of
\* its polls detected a change of the raw level against last_state, in
\* either direction; a read failure ends the wait at once with that error.
C16_AsClaimed ==
    /\ WaitEndsOnReadFailure
    /\ WaitDone =>
           ((IsOk(wait_ret) /\ wait_ret.val = TRUE)
            <=> \E i \in 1 .. Len(polls) : polls[i].after # polls[i].before)

\* C16 amended: a finished wait_for_press returned Ok(true) iff one of its
\* polls (the last one) detected a change to Pressed, the raw level Pressed
\* read while last_state was Released; a change to Released is stored in
\* last_state and does not end the wait; a read failure ends the wait at
\* once with that error.
C16_WaitReportsPress ==
    /\ WaitEndsOnReadFailure
    /\ \A i \in 1 .. Len(polls) - 1 :
           ~(polls[i].read.val = Pressed /\ polls[i].before = Released)
    /\ WaitDone =>
           ((IsOk(wait_ret) /\ wait_ret.val = TRUE)
            <=> /\ IsOk(polls[Len(polls)].read)
                /\ polls[Len(polls)].read.val = Pressed
                /\ polls[Len(polls)].before = Released)

\* The button was held when the call started: the release was stored by
\* the first poll without ending the wait, the press after it ended the
\* wait with Ok(true).
C16_Witness ==
    /\ WaitDone
    /\ Len(polls) = 2
    /\ AllReadsOk
    /\ polls[1].before = Pressed /\ polls[1].read.val = Released
    /\ polls[1].after = Released
    /\ polls[2].read.val = Pressed
    /\ IsOk(wait_ret) /\ wait_ret.val = TRUE

\* Iteration i of the main loop polled a rising edge: its pin read gave
\* Pressed while the level observed before (last_state) was Released.
RisingEdge(i) ==
    /\ IsOk(polls[i].read)
    /\ polls[i].read.val = Pressed
    /\ polls[i].before = Released

\* The LED levels before iteration i.
LevelsBefore(i) == IF i = 1 THEN <<FALSE, FALSE>> ELSE iters[i - 1].levels
WritesOf(i) == SelectSeq(iters[i].events, LAMBDA e : e.ev = "write")

\* C12: in every iteration of the main loop led_state is flipped and
\* set_state(led_state) is attempted iff the poll of that iteration detected
\* a rising edge; in every other iteration led_state is unchanged and no
\* output is written.
C12_FlipIffRisingEdge ==
    /\ Len(iters) = Len(polls)
    /\ \A i \in 1 .. Len(iters) :
           /\ RisingEdge(i) <=> iters[i].led_after = ~iters[i].led_before
           /\ RisingEdge(i) <=> Len(iters[i].set) = 1
           /\ RisingEdge(i) =>
                  /\ iters[i].set[1].op = "set_state"
                  /\ iters[i].set[1].arg = iters[i].led_after
                  /\ Len(WritesOf(i)) >= 1
           /\ ~RisingEdge(i) =>
                  /\ iters[i].led_after = iters[i].led_before
                  /\ iters[i].set = <<>>
                  /\ WritesOf(i) = <<>>
                  /\ iters[i].levels = LevelsBefore(i)

\* Press, hold, release, press: two flips with their writes, and two
\* iterations in between that change and write nothing.
C12_Witness ==
    /\ Len(iters) = 4
    /\ RisingEdge(1) /\ ~RisingEdge(2) /\ ~RisingEdge(3) /\ RisingEdge(4)
    /\ polls[2].read = Ok(Pressed)
    /\ polls[3].read = Ok(Released)
    /\ iters[1].led_after = TRUE
    /\ iters[3].led_after = TRUE
    /\ iters[4].led_after = FALSE

\* C13: an iteration whose button read fails counts as "no transition":
\* led_state is unchanged, no output is written, and the loop goes on to
\* the next iteration; main never returns because of a read failure (it
\* returns only from its setup, before the first iteration).
C13_ReadFailureFailOpen ==
    /\ main_ret # Running => iters = <<>>
    /\ (iters # <<>> /\ Len(polls) < MaxIter) => ENABLED MainLoop
    /\ \A i \in 1 .. Len(iters) :
           IsErr(polls[i].read) =>
               /\ iters[i].button_pressed = FALSE
               /\ iters[i].led_after = iters[i].led_before
               /\ iters[i].set = <<>>
               /\ WritesOf(i) = <<>>
               /\ iters[i].levels = LevelsBefore(i)
               /\ iters[i].ret = Running
               /\ iters[i].events[Len(iters[i].events)] = DelayEvent

\* A press switched the LEDs on, the next read failed and changed nothing,
\* and the loop ran a further iteration after it.
C13_Witness ==
    /\ Len(iters) = 3
    /\ RisingEdge(1) /\ IsOk(iters[1].set[1].ret)
    /\ IsErr(polls[2].read)
    /\ iters[2].led_after = TRUE /\ iters[2].levels = <<TRUE, TRUE>>
    /\ IsOk(polls[3].read)

\* The iterations that attempted set_state.
SetIters == {i \in 1 .. Len(iters) : iters[i].set # <<>>}

\* C14: when set_state fails in an iteration led_state stays flipped, the
\* write is attempted once in that iteration and in later iterations only
\* on a new rising edge, and the loop continues; after every set_state that
\* returns Ok, and until the next attempt, both LEDs equal led_state.
C14_WriteFailureDivergence ==
    /\ main_ret # Running => iters = <<>>
    /\ \A i \in SetIters :
           /\ Len(iters[i].set) = 1
           /\ RisingEdge(i)
           /\ iters[i].ret = Running
           /\ IsErr(iters[i].set[1].ret) =>
                  iters[i].led_after = ~iters[i].led_before
           /\ IsOk(iters[i].set[1].ret) =>
                  iters[i].levels = <<iters[i].led_after, iters[i].led_after>>
    /\ \A i \in SetIters :
           (IsOk(iters[i].set[1].ret)
            /\ \A j \in SetIters : j <= i) =>
               /\ led1 = led_state
               /\ led2 = led_state

\* The LED2 write of the first press failed: led_state is Asserted while
\* LED2 stays low through the release; the second press writes again,
\* succeeds, and both LEDs equal led_state.
C14_Witness ==
    /\ Len(iters) = 3
    /\ SetIters = {1, 3}
    /\ IsErr(iters[1].set[1].ret)
    /\ iters[1].led_after = TRUE /\ iters[1].levels = <<TRUE, FALSE>>
    /\ iters[2].led_after = TRUE /\ iters[2].levels = <<TRUE, FALSE>>
    /\ IsOk(iters[3].set[1].ret)
    /\ led_state = FALSE /\ led1 = FALSE /\ led2 = FALSE

\* C15: every iteration starts with its one poll, ends with the 50 ms
\* delay, and makes its LED writes, LED1 before LED2, between the two: no
\* LED write comes before the poll of its iteration.
C15_PollBeforeWrite ==
    \A i \in 1 .. Len(iters) :
        LET ev == iters[i].events
        IN  /\ Len(ev) >= 2
            /\ ev[1] = PollEvent
            /\ ev[Len(ev)] = DelayEvent
            /\ ev[Len(ev)].arg = LoopDelayMs
            /\ \A k \in 2 .. Len(ev) - 1 : ev[k].ev = "write"
            /\ \A k \in 2 .. Len(ev) - 2 : ev[k].arg < ev[k + 1].arg

\* An iteration that polled, wrote LED1, wrote LED2 and slept, in that order.
C15_Witness ==
    \E i \in 1 .. Len(iters) :
        iters[i].events =
            <<PollEvent, WriteEvent(1), WriteEvent(2), DelayEvent>>

\* C17: at every clock reading now >= start_time, remaining_ms() is
\* duration_ms - (now - start_time) when that elapsed time is below
\* duration_ms and 0 otherwise, always within 0 .. duration_ms; the u64
\* subtraction does not underflow and the narrowing of elapsed to u32 loses
\* nothing; has_expired() is true exactly when remaining_ms() is 0.
C17_RemainingMsValue ==
    /\ now >= start_time
    /\ has_expired(now, start_time, duration_ms)
           <=> remaining_ms(now, start_time, duration_ms) = 0
    /\ \A i \in 1 .. Len(timer_calls) :
           LET c == timer_calls[i]
               elapsed == c.at - start_time
           IN  /\ elapsed >= 0
               /\ c.op = "remaining_ms" =>
                      /\ c.ret \in 0 .. duration_ms
                      /\ elapsed < duration_ms =>
                             /\ c.ret = duration_ms - elapsed
                             /\ as_u32(elapsed) = elapsed
                      /\ elapsed >= duration_ms => c.ret = 0
               /\ c.op = "has_expired" => (c.ret <=> elapsed >= duration_ms)
               /\ \A j \in 1 .. Len(timer_calls) :
                      ( /\ c.op = "has_expired"
                        /\ timer_calls[j].op = "remaining_ms"
                        /\ timer_calls[j].at = c.at )
                      => (c.ret <=> timer_calls[j].ret = 0)

\* A timer of 2 ms or more started after boot: 1 ms was left, and at the
\* reading where the elapsed time equals the duration has_expired() was
\* true and remaining_ms() was 0.
C17_Witness ==
    /\ start_time > 0
    /\ duration_ms >= 2
    /\ Len(timer_calls) = 3
    /\ timer_calls[1].op = "remaining_ms" /\ timer_calls[1].ret = 1
    /\ timer_calls[2].op = "has_expired" /\ timer_calls[2].ret = TRUE
    /\ timer_calls[2].at = start_time + duration_ms
    /\ timer_calls[3].op = "remaining_ms" /\ timer_calls[3].ret = 0
    /\ timer_calls[3].at = timer_calls[2].at

\* C18: reset leaves duration_ms unchanged and reset_with_duration(d) sets
\* it to d, both set start_time to the clock reading of the call; applying
\* either twice leaves the timer in the state one application leaves it in
\* (the same state when the clock reads the same at both calls, and in
\* general the state of a single application at the second call's reading).
C18_ResetIdempotent ==
    /\ Len(resets) >= 1 => TimerFields = resets[Len(resets)].after
    /\ \A i \in 1 .. Len(resets) :
           LET r == resets[i]
           IN  /\ r.after.start_time = r.at
               /\ r.op = "reset" => r.after.duration_ms = r.before.duration_ms
               /\ r.op = "reset_with_duration" => r.after.duration_ms = r.arg
    /\ \A i \in 1 .. Len(resets) - 1 :
           LET first == resets[i]
               second == resets[i + 1]
           IN  (first.op = second.op /\ first.arg = second.arg) =>
                   /\ second.before = first.after
                   /\ second.at = first.at => second.after = first.after
                   /\ second.after =
                          [start_time |-> second.at,
                           duration_ms |-> first.after.duration_ms]

\* reset_with_duration(d) twice at one clock reading, on a timer that had
\* another duration and an earlier start, and reset twice likewise.
C18_Witness ==
    /\ Len(resets) = 2
    /\ resets[1].op = resets[2].op
    /\ resets[1].op = "reset_with_duration"
    /\ resets[1].arg = resets[2].arg
    /\ resets[1].at = resets[2].at
    /\ resets[1].before.duration_ms # resets[1].arg
    /\ resets[1].before.duration_ms > 0
    /\ resets[1].before.start_time < resets[1].at
    /\ resets[2].after = resets[1].after

\* C19: a successful toggle_led1 (toggle_led2) flips that output and leaves
\* the other as it was; after set_state(L) and toggle_led1, LED1 is at
\* not-L and LED2 at L; two successive toggles of one LED restore it.
C19_ToggleFrame ==
    /\ Len(led_ops) >= 1 => led_ops[Len(led_ops)].after = <<led1, led2>>
    /\ \A i \in 1 .. Len(led_ops) :
           LET o == led_ops[i]
           IN  /\ (o.op = "toggle_led1" /\ IsOk(o.ret)) =>
                      o.after = <<~o.before[1], o.before[2]>>
               /\ (o.op = "toggle_led2" /\ IsOk(o.ret)) =>
                      o.after = <<o.before[1], ~o.before[2]>>
               /\ o.op = "toggle_led1" => o.after[2] = o.before[2]
               /\ o.op = "toggle_led2" => o.after[1] = o.before[1]
    /\ \A i \in 1 .. Len(led_ops) - 1 :
           LET o == led_ops[i]
               n == led_ops[i + 1]
           IN  /\ (o.op = "set_state" /\ IsOk(o.ret)
                   /\ n.op = "toggle_led1" /\ IsOk(n.ret)) =>
                      n.after = <<~o.arg, o.arg>>
               /\ (o.op = "set_state" /\ IsOk(o.ret)
                   /\ n.op = "toggle_led2" /\ IsOk(n.ret)) =>
                      n.after = <<o.arg, ~o.arg>>
               /\ (o.op \in {"toggle_led1", "toggle_led2"} /\ n.op = o.op
                   /\ IsOk(o.ret) /\ IsOk(n.ret)) =>
                      n.after = o.before

\* set_state(TRUE), then toggle_led1 twice: LED1 went low and high again
\* while LED2 stayed high.
C19_Witness ==
    /\ Len(led_ops) = 3
    /\ led_ops[1].op = "set_state" /\ led_ops[1].arg = TRUE
    /\ IsOk(led_ops[1].ret)
    /\ led_ops[2].op = "toggle_led1" /\ IsOk(led_ops[2].ret)
    /\ led_ops[2].after = <<FALSE, TRUE>>
    /\ led_ops[3].op = "toggle_led1" /\ IsOk(led_ops[3].ret)
    /\ led_ops[3].after = <<TRUE, TRUE>>

\* C20 as claimed: no doubling of delay_ms leaves the u32 range: the k-th
\* sleep is exactly initial_delay_ms * 2^(k-1), and the doubling done when
\* the last sleep is over, whose result may never be slept on, is exact as
\* well.
C20_AsClaimed ==
    /\ retry_ret # Panic
    /\ \A k \in 1 .. Len(sleeps) : ExactDoubling(k)
    /\ (Len(sleeps) >= 1 /\ ~retry_waiting) =>
           /\ ~mul2_overflows(sleeps[Len(sleeps)])
           /\ delay_ms = wrapping_mul2(sleeps[Len(sleeps)])

\* Poll i returned Ok(true) (Ok(false)).
ReturnedTrue(i) == IsOk(polls[i].ret) /\ polls[i].ret.val
ReturnedFalse(i) == IsOk(polls[i].ret) /\ ~polls[i].ret.val

\* C21: is_pressed() never returns Ok(true) on two consecutive successful
\* polls, with or without failed polls in between; so in the main loop
\* last_button_state is false whenever button_pressed is true, led_state
\* flips exactly once for every poll that returns true, and the guard
\* never suppresses a detected press.
C21_NoConsecutiveTrue ==
    /\ Len(iters) = Len(polls)
    /\ \A i \in 1 .. Len(polls) : \A j \in i + 1 .. Len(polls) :
           (ReturnedTrue(i) /\ ReturnedTrue(j)) =>
               \E k \in i + 1 .. j - 1 : ReturnedFalse(k)
    /\ \A i \in 1 .. Len(iters) :
           /\ iters[i].button_pressed <=> ReturnedTrue(i)
           /\ iters[i].button_pressed => ~iters[i].lbs_before
           /\ iters[i].button_pressed <=>
                  iters[i].led_after = ~iters[i].led_before
           /\ iters[i].button_pressed <=> Len(iters[i].set) = 1

\* A press, a failed read, the held level, the release and a second press:
\* true, Err, false, false, true, and led_state flipped twice.
C21_Witness ==
    /\ Len(polls) = 5
    /\ ReturnedTrue(1)
    /\ IsErr(polls[2].ret)
    /\ polls[3].read = Ok(Pressed) /\ ReturnedFalse(3)
    /\ polls[4].read = Ok(Released) /\ ReturnedFalse(4)
    /\ ReturnedTrue(5)
    /\ iters[1].led_after = TRUE
    /\ iters[5].led_before = TRUE
    /\ iters[5].led_after = FALSE

\* C22: retry_with_backoff with max_attempts = 0 behaves exactly like
\* max_attempts = 1: the operation is invoked exactly once, no sleep occurs
\* (so delay_ms is never doubled), and the result of that invocation, Ok or
\* Err, is returned; every pass of the loop gives the same outcome for
\* both values.
C22_ZeroLikeOne ==
    /\ \A result \in OperationResults :
           retry_with_backoff(result, attempt, delay_ms, 0)
           = retry_with_backoff(result, attempt, delay_ms, 1)
    /\ max_attempts \in {0, 1} =>
           /\ sleeps = <<>>
           /\ delay_ms = initial_delay_ms
           /\ Len(calls) <= 1
           /\ RetryDone <=> Len(calls) = 1
           /\ RetryDone => retry_ret = calls[1]

\* max_attempts = 0 with the largest initial delay: the one invocation
\* failed with e2, Err(e2) was returned and nothing was slept.
C22_Witness ==
    /\ max_attempts = 0
    /\ initial_delay_ms = [hi |-> 2^15, lo |-> 0]
    /\ calls = <<Err("e2")>>
    /\ retry_ret = Err("e2")
    /\ sleeps = <<>>

\* The wait returned Ok(false): it timed out.
WaitTimedOut == WaitDone /\ IsOk(wait_ret) /\ ~wait_ret.val
\* The first poll ended the wait with Ok(true).
ReportedAtOnce ==
    /\ WaitDone
    /\ Len(polls) = 1
    /\ IsOk(wait_ret) /\ wait_ret.val

\* C23 as claimed: wait_for_press polls at least once for every timeout_ms,
\* returns Ok(false) only when the elapsed time strictly exceeds
\* timeout_ms, and reports a transition present at call time (the first
\* poll reads a level that differs from last_state, in either direction).
C23_AsClaimed ==
    /\ WaitDone => Len(polls) >= 1
    /\ WaitTimedOut => now - wait_start > timeout_ms
    /\ (Len(polls) >= 1 /\ IsOk(polls[1].read)
        /\ polls[1].read.val # polls[1].before) => ReportedAtOnce

\* C23 amended: wait_for_press polls at least once for every timeout_ms,
\* timeout_ms = 0 included, because the poll precedes the timeout check; it
\* returns Ok(false) only when the elapsed time strictly exceeds
\* timeout_ms; so a change to Pressed present at call time (the first poll
\* reads Pressed while last_state is Released) is reported by Ok(true),
\* whatever the timeout, while a change to Released present at call time
\* is stored and not reported.
C23_PollBeforeTimeout ==
    /\ WaitDone => Len(polls) >= 1
    /\ WaitTimedOut => now - wait_start > timeout_ms
    /\ (Len(polls) >= 1 /\ IsOk(polls[1].read)
        /\ polls[1].read.val = Pressed /\ polls[1].before = Released)
       => ReportedAtOnce
    /\ (Len(polls) >= 1 /\ IsOk(polls[1].read)
        /\ polls[1].read.val = Released /\ polls[1].before = Pressed)
       => /\ polls[1].after = Released
          /\ ~ReportedAtOnce

\* A zero timeout with the press present at call time: the single poll
\* reported it and the call returned Ok(true) with no time elapsed.
C23_Witness ==
    /\ ReportedAtOnce
    /\ timeout_ms = 0
    /\ wait_start > 0
    /\ now = wait_start
    /\ polls[1].before = Released
    /\ polls[1].read = Ok(Pressed)

\* C24: handle_error_with_recovery invokes recovery_fn exactly once when
\* the given result is Err and never when it is Ok; on Ok it returns the
\* original value, on Err the recovery's result, so when recovery fails
\* too the returned error is the recovery's and not the original one.
C24_RecoveryOnceOnErr ==
    \A i \in 1 .. Len(handled) :
        LET h == handled[i]
        IN  /\ IsOk(h.result) =>
                   /\ h.recovery_calls = <<>>
                   /\ h.ret = h.result
            /\ IsErr(h.result) =>
                   /\ h.recovery_calls = <<h.recovery>>
                   /\ h.ret = h.recovery
                   /\ IsErr(h.recovery) =>
                          /\ IsErr(h.ret)
                          /\ h.ret.val = h.recovery.val
                          /\ h.ret.val # h.result.val

\* Three calls: an Ok result with no recovery call, an error recovered
\* from, and the error e2 whose recovery failed with r1.
C24_Witness ==
    /\ Len(handled) = 3
    /\ handled[1].result = Ok("value") /\ handled[1].ret = Ok("value")
    /\ handled[1].recovery_calls = <<>>
    /\ handled[2].result = Err("e1") /\ handled[2].ret = Ok("recovered")
    /\ Len(handled[2].recovery_calls) = 1
    /\ handled[3].result = Err("e2") /\ handled[3].recovery = Err("r1")
    /\ handled[3].ret = Err("r1")
    /\ Len(handled[3].recovery_calls) = 1

SensorReads ==
    {"read_temperature", "read_humidity", "read_pressure", "read_all_sensors"}
IsNotActiveError(r) == IsErr(r) /\ r.val = "Sensor task not active"

\* C25: after any sequence of start, stop and read calls, read_temperature,
\* read_humidity, read_pressure, read_all_sensors and run_loop return the
\* error "Sensor task not active" whenever is_active is false, which it is
\* before the first start and after every stop, and then leave the stored
\* temperature, humidity and pressure unchanged; whenever is_active is true
\* the reads return Ok.
C25_InactiveReadsFail ==
    /\ Len(sensor_ops) >= 1 =>
           sensor_ops[Len(sensor_ops)].after = SensorFields
    /\ Len(sensor_ops) = 0 => ~is_active
    /\ \A i \in 1 .. Len(sensor_ops) - 1 :
           sensor_ops[i + 1].before = sensor_ops[i].after
    /\ \A i \in 1 .. Len(sensor_ops) :
           LET o == sensor_ops[i]
           IN  /\ o.op = "start" => o.after.is_active
               /\ o.op = "stop" => ~o.after.is_active
               /\ o.op \notin {"start", "stop"} =>
                      o.after.is_active = o.before.is_active
               /\ (o.op \in SensorReads \cup {"run_loop"}
                   /\ ~o.before.is_active) =>
                      /\ IsNotActiveError(o.ret)
                      /\ o.after = o.before
               /\ (o.op \in SensorReads /\ o.before.is_active) => IsOk(o.ret)
               /\ (o.op = "run_loop" /\ o.before.is_active) =>
                      o.ret = Running

\* After a read that moved the temperature off its start value the task
\* was stopped: read_all_sensors and then run_loop returned the error and
\* the stored values are still those of before the stop.
C25_Witness ==
    /\ Len(sensor_ops) = 2
    /\ sensor_ops[1].op = "read_all_sensors"
    /\ IsNotActiveError(sensor_ops[1].ret)
    /\ sensor_ops[2].op = "run_loop"
    /\ IsNotActiveError(sensor_ops[2].ret)
    /\ temperature # TemperatureBase /\ temperature # 0
    /\ humidity = HumidityBase + noise(1, HumiditySpan)
    /\ pressure = PressureBase
    /\ ~is_active

====
